---------------------------- MODULE Spec2Model ----------------------------
(***************************************************************************)
(* A model of little-tanks: tile classification (map.rs), texture atlas    *)
(* addressing (texture.rs), the cube face accumulator (meshutils.rs) and   *)
(* the map / mesh builder (map.rs).                                        *)
(*                                                                         *)
(* Number representation.  u8 and u16 values are naturals reduced modulo   *)
(* 2^8 and 2^16 where the code computes them (the code base predates       *)
(* overflow checks: integer arithmetic wraps).  World coordinates are f32  *)
(* multiples of TILE_SIZE / 2 and are kept as integers in half-tile units  *)
(* (1 unit = 0.5).  Texture measurements are f32 quotients and are kept as *)
(* exact fractions <<numerator, denominator>> in lowest terms.             *)
(***************************************************************************)
EXTENDS Integers, Sequences, FiniteSets, TLC

VARIABLES
    pc,          \* position of the run
    gid,         \* u8 handed to Tile::from_gid
    tile,        \* Option<Tile> returned by Tile::from_gid
    info,        \* what the predicates of Tile answer for `tile`
    atlas,       \* BasicTexture.info: pixel size of the root texture
    tex,         \* the texture (root or slice) last produced
    parent,      \* the texture that `tex` was sliced from
    req,         \* the rectangle requested of `parent`
    meas,        \* get_measurements() of `tex`
    md,          \* decoded MapData: width, height, layers[0].data
    map,         \* Res<Map> returned by Map::open
    bx, by,      \* loop counters of MapMeshBuilder::build_mesh
    cube_maker,  \* CubeMaker: vertices and indexes
    mesh,        \* the buffers handed to the device by finish
    camera,      \* eye, target and up handed to Transform::look_at
    vertex_count,  \* CubeMaker.vertices.len() of a long run of add_side calls
    index_count,   \* CubeMaker.indexes.len() of that run
    last_indexes   \* the entries the last add_side of that run pushed to indexes

vars == <<pc, gid, tile, info, atlas, tex, parent, req, meas,
          md, map, bx, by, cube_maker, mesh, camera,
          vertex_count, index_count, last_indexes >>

None == "None"

U8(n) == n % (2^8)
U16(n) == n % (2^16)

-----------------------------------------------------------------------------
(* Tile classification: map.rs                                             *)

\* The variants of enum Tile in declaration order.
TileVariants ==
    << "Oob", "Ground", "Hole", "Water", "Swamp",
       "Wall1", "Wall2", "Wall3", "Wall4", "Wall5",
       "Box1", "Box2", "Box3", "Box4", "Box5",
       "Player1Spawn", "Player2Spawn", "Player3Spawn", "Player4Spawn",
       "StationaryEnemy", "BasicEnemy", "FastEnemy", "HeatSeekerEnemy",
       "RocketEnemy", "Mine", "Crate" >>

Tiles == { TileVariants[i] : i \in DOMAIN TileVariants }

\* A discriminant table with a copy-paste slip: Hole takes Ground's value.
DiscriminantSlip(t) ==
    CASE t = "Oob" -> 1            [] t = "Ground" -> 9
      [] t = "Hole" -> 9           [] t = "Water" -> 5
      [] t = "Swamp" -> 6
      [] t = "Wall1" -> 2          [] t = "Wall2" -> 10
      [] t = "Wall3" -> 18         [] t = "Wall4" -> 26
      [] t = "Wall5" -> 34
      [] t = "Box1" -> 3           [] t = "Box2" -> 11
      [] t = "Box3" -> 19          [] t = "Box4" -> 27
      [] t = "Box5" -> 35
      [] t = "Player1Spawn" -> 13  [] t = "Player2Spawn" -> 21
      [] t = "Player3Spawn" -> 29  [] t = "Player4Spawn" -> 37
      [] t = "StationaryEnemy" -> 8
      [] t = "BasicEnemy" -> 16    [] t = "FastEnemy" -> 24
      [] t = "HeatSeekerEnemy" -> 40
      [] t = "RocketEnemy" -> 32
      [] t = "Mine" -> 25          [] t = "Crate" -> 4

\* The explicit discriminants of enum Tile.
Discriminant(t) ==
    CASE t = "Oob" -> 1            [] t = "Ground" -> 9
      [] t = "Hole" -> 17          [] t = "Water" -> 5
      [] t = "Swamp" -> 6
      [] t = "Wall1" -> 2          [] t = "Wall2" -> 10
      [] t = "Wall3" -> 18         [] t = "Wall4" -> 26
      [] t = "Wall5" -> 34
      [] t = "Box1" -> 3           [] t = "Box2" -> 11
      [] t = "Box3" -> 19          [] t = "Box4" -> 27
      [] t = "Box5" -> 35
      [] t = "Player1Spawn" -> 13  [] t = "Player2Spawn" -> 21
      [] t = "Player3Spawn" -> 29  [] t = "Player4Spawn" -> 37
      [] t = "StationaryEnemy" -> 8
      [] t = "BasicEnemy" -> 16    [] t = "FastEnemy" -> 24
      [] t = "HeatSeekerEnemy" -> 40
      [] t = "RocketEnemy" -> 32
      [] t = "Mine" -> 25          [] t = "Crate" -> 4

\* #[deriving(FromPrimitive)]: the first variant, in declaration order, whose
\* discriminant equals the number; None when there is none.
from_gid(g) ==
    LET hits == { i \in DOMAIN TileVariants : Discriminant(TileVariants[i]) = g }
    IN  IF hits = {} THEN None
        ELSE TileVariants[CHOOSE i \in hits : \A j \in hits : i <= j]

\* `*self as u8`
get_gid(t) == U8(Discriminant(t))

is_oob(t) == t = "Oob"

\* get_spawn with the two object spawns forgotten.
get_spawn_no_objects(t) ==
    CASE t = "Player1Spawn" -> "Player(0)"
      [] t = "Player2Spawn" -> "Player(1)"
      [] t = "Player3Spawn" -> "Player(2)"
      [] t = "Player4Spawn" -> "Player(3)"
      [] t = "StationaryEnemy" -> "Enemy(Stationary)"
      [] t = "BasicEnemy" -> "Enemy(Basic)"
      [] t = "FastEnemy" -> "Enemy(Fast)"
      [] t = "HeatSeekerEnemy" -> "Enemy(HeatSeeker)"
      [] t = "RocketEnemy" -> "Enemy(Rocket)"
      [] OTHER -> None

get_spawn(t) ==
    CASE t = "Player1Spawn" -> "Player(0)"
      [] t = "Player2Spawn" -> "Player(1)"
      [] t = "Player3Spawn" -> "Player(2)"
      [] t = "Player4Spawn" -> "Player(3)"
      [] t = "StationaryEnemy" -> "Enemy(Stationary)"
      [] t = "BasicEnemy" -> "Enemy(Basic)"
      [] t = "FastEnemy" -> "Enemy(Fast)"
      [] t = "HeatSeekerEnemy" -> "Enemy(HeatSeeker)"
      [] t = "RocketEnemy" -> "Enemy(Rocket)"
      [] t = "Mine" -> "Object(Mine)"
      [] t = "Crate" -> "Object(Crate)"
      [] OTHER -> None

is_spawn(t) == get_spawn(t) # None

\* is_ground with Hole counted as ground.
is_ground_with_hole(t) ==
    IF is_spawn(t) THEN TRUE
    ELSE CASE t = "Oob" -> TRUE
           [] t = "Ground" -> TRUE
           [] t = "Hole" -> TRUE
           [] OTHER -> FALSE

is_ground(t) ==
    IF is_spawn(t) THEN TRUE
    ELSE CASE t = "Oob" -> TRUE
           [] t = "Ground" -> TRUE
           [] OTHER -> FALSE

is_fluid(t) == t \in {"Water", "Swamp"}

\* height with the match arms of the boxes shifted by one level.
height_boxes_shifted(t) ==
    CASE t \in {"Wall1"} -> 1
      [] t \in {"Wall2", "Box1"} -> 2
      [] t \in {"Wall3", "Box2"} -> 3
      [] t \in {"Wall4", "Box3"} -> 4
      [] t \in {"Wall5", "Box4", "Box5"} -> 5
      [] OTHER -> 0

height(t) ==
    CASE t \in {"Wall1", "Box1"} -> 1
      [] t \in {"Wall2", "Box2"} -> 2
      [] t \in {"Wall3", "Box3"} -> 3
      [] t \in {"Wall4", "Box4"} -> 4
      [] t \in {"Wall5", "Box5"} -> 5
      [] OTHER -> 0

is_obstacle(t) == height(t) > 0

blocks_bullet(t) == height(t) > 0

\* Every predicate of a tile, as Tile::debug collects them.
debug(t) ==
    [ tile |-> t,
      gid |-> get_gid(t),
      is_oob |-> is_oob(t),
      is_ground |-> is_ground(t),
      is_fluid |-> is_fluid(t),
      is_obstacle |-> is_obstacle(t),
      is_spawn |-> is_spawn(t),
      height |-> height(t),
      blocks_bullet |-> blocks_bullet(t),
      spawn |-> get_spawn(t) ]


-----------------------------------------------------------------------------
(* Texture atlas addressing: texture.rs                                    *)

RECURSIVE GCD(_, _)
GCD(a, b) == IF b = 0 THEN a ELSE GCD(b, a % b)

\* The f32 quotient n / d of two u16 values as an exact fraction in lowest
\* terms; x / 0 is <<1, 0>> (infinity) and 0 / 0 is <<0, 0>> (NaN).
Frac(n, d) ==
    IF d = 0 THEN (IF n = 0 THEN <<0, 0>> ELSE <<1, 0>>)
    ELSE LET g == GCD(n, d) IN <<n \div g, d \div g>>

\* t * fac + off for an integer t and two fractions.
FracMulAdd(t, fac, off) ==
    Frac(t * fac[1] * off[2] + off[1] * fac[2], fac[2] * off[2])

NoTex == [kind |-> "None"]
NoReq == [kind |-> "None"]
NoMeas == <<>>

\* BasicTexture::new with impl Texture for BasicTexture: the whole image at
\* offset 0/0.
BasicTexture(i) ==
    [ kind |-> "BasicTexture",
      width |-> U16(i.width), height |-> U16(i.height),
      offset_x |-> 0, offset_y |-> 0,
      info |-> i ]

\* Texture::get_measurements with the offsets divided by the slice's own size.
get_measurements_own_size(t) ==
    << Frac(t.width, t.info.width),
       Frac(t.height, t.info.height),
       Frac(t.offset_x, t.width),
       Frac(t.offset_y, t.height) >>

\* Texture::get_measurements
get_measurements(t) ==
    << Frac(t.width, t.info.width),
       Frac(t.height, t.info.height),
       Frac(t.offset_x, t.info.width),
       Frac(t.offset_y, t.info.height) >>

\* Texture::slice: a TextureSlice over the same BasicTexture.
slice(p, x, y, w, h) ==
    [ kind |-> "TextureSlice",
      width |-> w, height |-> h,
      offset_x |-> U16(p.offset_x + x),
      offset_y |-> U16(p.offset_y + y),
      info |-> p.info ]

\* The rectangle Tile::get_texture_slice asks of the atlas, with column and
\* row exchanged.
tile_rect_transposed(t, p) ==
    LET idx == U16(U8(get_gid(t) - 1))
        w == p.width \div 8
        h == p.height \div 8
    IN  [ x |-> U16((idx \div 8) * w), y |-> U16((idx % 8) * h),
          width |-> w, height |-> h ]

\* The rectangle Tile::get_texture_slice asks of the atlas.
tile_rect(t, p) ==
    LET idx == U16(U8(get_gid(t) - 1))
        w == p.width \div 8
        h == p.height \div 8
    IN  [ x |-> U16((idx % 8) * w), y |-> U16((idx \div 8) * h),
          width |-> w, height |-> h ]

\* Tile::get_texture_slice
get_texture_slice(t, p) ==
    LET r == tile_rect(t, p) IN slice(p, r.x, r.y, r.width, r.height)


-----------------------------------------------------------------------------
(* Cube geometry primitives: meshutils.rs                                  *)

CUBE_INDEXES == <<0, 1, 2, 0, 2, 3>>

\* CUBE_SIDE_NEAR with its corners listed the other way round.
CUBE_SIDE_NEAR_reversed ==
    [ pos |-> << <<-1, -1, 1>>, <<-1, 1, 1>>, <<1, 1, 1>>, <<1, -1, 1>> >>,
      normal |-> <<0, 0, 1>>,
      tex_coord |-> << <<0, 1>>, <<0, 0>>, <<1, 0>>, <<1, 1>> >> ]

CUBE_SIDE_NEAR ==
    [ pos |-> << <<-1, -1, 1>>, <<1, -1, 1>>, <<1, 1, 1>>, <<-1, 1, 1>> >>,
      normal |-> <<0, 0, 1>>,
      tex_coord |-> << <<0, 1>>, <<1, 1>>, <<1, 0>>, <<0, 0>> >> ]

CUBE_SIDE_FAR ==
    [ pos |-> << <<-1, -1, -1>>, <<-1, 1, -1>>, <<1, 1, -1>>, <<1, -1, -1>> >>,
      normal |-> <<0, 0, -1>>,
      tex_coord |-> << <<1, 1>>, <<1, 0>>, <<0, 0>>, <<0, 1>> >> ]

CUBE_SIDE_TOP ==
    [ pos |-> << <<-1, 1, -1>>, <<-1, 1, 1>>, <<1, 1, 1>>, <<1, 1, -1>> >>,
      normal |-> <<0, 1, 0>>,
      tex_coord |-> << <<1, 1>>, <<1, 0>>, <<0, 0>>, <<0, 1>> >> ]

CUBE_SIDE_BOTTOM ==
    [ pos |-> << <<-1, -1, -1>>, <<1, -1, -1>>, <<1, -1, 1>>, <<-1, -1, 1>> >>,
      normal |-> <<0, -1, 0>>,
      tex_coord |-> << <<0, 1>>, <<1, 1>>, <<1, 0>>, <<0, 0>> >> ]

CUBE_SIDE_LEFT ==
    [ pos |-> << <<-1, -1, -1>>, <<-1, -1, 1>>, <<-1, 1, 1>>, <<-1, 1, -1>> >>,
      normal |-> <<-1, 0, 0>>,
      tex_coord |-> << <<0, 1>>, <<1, 1>>, <<1, 0>>, <<0, 0>> >> ]

CUBE_SIDE_RIGHT ==
    [ pos |-> << <<1, -1, -1>>, <<1, 1, -1>>, <<1, 1, 1>>, <<1, -1, 1>> >>,
      normal |-> <<1, 0, 0>>,
      tex_coord |-> << <<1, 1>>, <<1, 0>>, <<0, 0>>, <<0, 1>> >> ]

\* CubeMaker::new
CubeMaker_new == [vertices |-> <<>>, indexes |-> <<>>]

\* The vertex add_side pushes for corner i of a face: the corner scaled to
\* the half size and moved to pos, its texture coordinate mapped into the
\* slice, and the normal of the face.
corner_vertex(cs, i, pos, halfsize, m) ==
    LET c == cs.pos[i + 1]
        t == cs.tex_coord[i + 1]
    IN  [ pos |-> << pos[1] + c[1] * halfsize,
                     pos[2] + c[2] * halfsize,
                     pos[3] + c[3] * halfsize >>,
          tex_coord |-> << FracMulAdd(t[1], m[1], m[3]),
                           FracMulAdd(t[2], m[2], m[4]) >>,
          normal |-> cs.normal ]

\* pushed_index with the vertex count read after the vertex was pushed.
pushed_index_late(base, k) == U16(base + k)

\* `self.vertices.len() as u16` in pass k = 1, 2, ... of the loop of add_side,
\* which began with base vertices: each earlier pass pushed one vertex.
pushed_index(base, k) == U16(base + (k - 1))

\* CubeMaker::add_side: one pass per entry of CUBE_INDEXES, each pushing one
\* index and one vertex.
add_side(cm, cs, pos, size, t) ==
    LET halfsize == size \div 2
        m == get_measurements(t)
        base == Len(cm.vertices)
        passes == 1..Len(CUBE_INDEXES)
    IN  [ indexes |-> cm.indexes \o [ k \in passes |-> pushed_index(base, k) ],
          vertices |-> cm.vertices \o
              [ k \in passes |->
                  corner_vertex(cs, CUBE_INDEXES[k], pos, halfsize, m) ] ]

add_near_side(cm, pos, size, t) == add_side(cm, CUBE_SIDE_NEAR, pos, size, t)
add_far_side(cm, pos, size, t) == add_side(cm, CUBE_SIDE_FAR, pos, size, t)
add_left_side(cm, pos, size, t) == add_side(cm, CUBE_SIDE_LEFT, pos, size, t)
add_right_side(cm, pos, size, t) == add_side(cm, CUBE_SIDE_RIGHT, pos, size, t)
add_top_side(cm, pos, size, t) == add_side(cm, CUBE_SIDE_TOP, pos, size, t)
add_bottom_side(cm, pos, size, t) == add_side(cm, CUBE_SIDE_BOTTOM, pos, size, t)

\* CubeMaker::finish
CubeMaker_finish(cm) == <<cm.vertices, cm.indexes>>

-----------------------------------------------------------------------------
(* Map data model and mesh builder: map.rs                                 *)

\* The f32 literal n.0 as a length in half-tile units.
Fx(n) == 2 * n

\* static TILE_SIZE : f32 = 1.0
TILE_SIZE == Fx(1)

NoMap == [status |-> "None"]
NoMesh == [status |-> "None"]
NoCamera == [status |-> "None"]

\* Map::open from the decoded MapData on: unknown gids become Oob, and the
\* 16-bit product of the dimensions is compared with the number of tiles.
Map_open(d) ==
    LET tiles == [ i \in 1..Len(d.data) |->
                     IF from_gid(d.data[i]) = None THEN "Oob"
                     ELSE from_gid(d.data[i]) ]
    IN  IF U16(d.width * d.height) # Len(tiles)
        THEN [status |-> "Err", error |-> "InvalidMap(Invalid dimensions)"]
        ELSE [status |-> "Ok", width |-> d.width, height |-> d.height,
              tiles |-> tiles]

\* The position Map::get_tile reads: (y * width + x) as uint, in u16.
tile_index(m, x, y) == U16(U16(y * m.width) + x)

\* Whether the Vec index of Map::get_tile is in bounds (it panics otherwise).
tile_in_bounds(m, x, y) == tile_index(m, x, y) < Len(m.tiles)

\* Map::get_tile
get_tile(m, x, y) == m.tiles[tile_index(m, x, y) + 1]

\* Map::get_camera_view: the arguments of Transform::look_at.
get_camera_view(m) ==
    LET left == (m.width * TILE_SIZE) \div 2 - TILE_SIZE \div 2
        top == (m.height * TILE_SIZE) \div 2 - TILE_SIZE \div 2
    IN  [ status |-> "Some",
          eye |-> <<left, left * 2, top - Fx(2)>>,
          target |-> <<left, 0, top>>,
          up |-> <<0, 0, 1>> ]

\* get_pos with the rows of the grid taken as they come, row 0 at world z 0.
get_pos_rows_unflipped(m, tile_size, x, y, z) ==
    << x * tile_size, z * tile_size, y * tile_size >>

\* MapMeshBuilder::get_pos
get_pos(m, tile_size, x, y, z) ==
    << x * tile_size, z * tile_size, U16(U16(m.height - y) - 1) * tile_size >>

\* add_ground_tile textured with the cell of the tile it is called for.
add_ground_tile_own_cell(cm, m, texture_map, tile_size, x, y) ==
    add_top_side(cm, get_pos(m, tile_size, x, y, 0), tile_size,
                 get_texture_slice(get_tile(m, x, y), texture_map))

\* MapMeshBuilder::add_ground_tile
add_ground_tile(cm, m, texture_map, tile_size, x, y) ==
    add_top_side(cm, get_pos(m, tile_size, x, y, 0), tile_size,
                 get_texture_slice("Ground", texture_map))

\* add_box_level with the near side added before the far side.
add_box_level_near_first(cm, pos, tile_size, t, z, h) ==
    LET l == add_left_side(cm, pos, tile_size, t)
        r == add_right_side(l, pos, tile_size, t)
        n == add_near_side(r, pos, tile_size, t)
        f == add_far_side(n, pos, tile_size, t)
    IN  IF z = h THEN add_top_side(f, pos, tile_size, t) ELSE f

\* One level of a box: the four sides, and the top on the last level.
add_box_level(cm, pos, tile_size, t, z, h) ==
    LET l == add_left_side(cm, pos, tile_size, t)
        r == add_right_side(l, pos, tile_size, t)
        f == add_far_side(r, pos, tile_size, t)
        n == add_near_side(f, pos, tile_size, t)
    IN  IF z = h THEN add_top_side(n, pos, tile_size, t) ELSE n

\* box_levels with the upper end of the range off by one.
box_levels_short(h) == { z \in 1..255 : z < h }

\* The levels add_box walks: range(1, height + 1) in u8.
box_levels(h) == { z \in 1..255 : z < U8(h + 1) }

\* MapMeshBuilder::add_box
add_box(cm, m, texture_map, tile_size, x, y, h, t) ==
    LET n == Cardinality(box_levels(h))
        level[z \in 0..n] ==
            IF z = 0 THEN cm
            ELSE add_box_level(level[z - 1],
                               get_pos(m, tile_size, x, y, U16(z)), tile_size,
                               get_texture_slice(t, texture_map), z, h)
    IN  level[n]

\* The body of the inner loop of MapMeshBuilder::build_mesh for cell (x, y).
build_cell(cm, m, texture_map, tile_size, x, y) ==
    LET t == get_tile(m, x, y)
    IN  IF is_ground(t) THEN add_ground_tile(cm, m, texture_map, tile_size, x, y)
        ELSE IF height(t) > 0
             THEN add_box(cm, m, texture_map, tile_size, x, y, height(t), t)
             ELSE cm


-----------------------------------------------------------------------------
(* Bounds and inputs                                                       *)

MaxDim == 2
MaxLen == 4
MaxCalls == 2
MaxFaces == 10930

\* Map dimensions: the small ones, and 256, whose square is 2^16.
Dims == (0..MaxDim) \cup {256}

\* Gids of a map layer: unknown, Ground, Player1Spawn, Hole, Wall3.
GidInputs == {0, 9, 13, 17, 18}

MapDatas ==
    [ width : Dims, height : Dims,
      data : UNION { [1..n -> GidInputs] : n \in 0..MaxLen } ]

MainAtlas == [width |-> 512, height |-> 512]

AtlasInfos == { MainAtlas, [width |-> 100, height |-> 60],
                [width |-> 7, height |-> 1024] }

SliceOffsets == {0, 64, 30000, 40000}
SliceSizes == { <<64, 64>>, <<8, 16>> }

CubePositions == { <<0, 0, 0>>, <<Fx(1), Fx(2), Fx(3)>> }
CubeTiles == {"Ground", "Wall1"}

NoInfo == [tile |-> "None"]
NoMapData == [width |-> 0, height |-> 0, data |-> <<>>]

TileIdle == gid = 0 /\ tile = None /\ info = NoInfo
TexIdle == parent = NoTex /\ req = NoReq /\ meas = NoMeas
MapIdle ==
    /\ md = NoMapData /\ map = NoMap /\ bx = 0 /\ by = 0
    /\ mesh = NoMesh /\ camera = NoCamera

\* No run of counted add_side calls is under way.
CountIdle == vertex_count = 0 /\ index_count = 0 /\ last_indexes = <<>>

tile_vars == <<gid, tile, info>>
tex_vars == <<atlas, tex, parent, req, meas>>
map_vars == <<md, map, bx, by, mesh, camera>>
count_vars == <<vertex_count, index_count, last_indexes>>

-----------------------------------------------------------------------------
(* The game's run: run_everything in game.rs loads the atlas, opens the    *)
(* map, builds its mesh and asks for the camera view.                      *)

Init ==
    /\ pc = "start"
    /\ md \in MapDatas
    /\ atlas = MainAtlas
    /\ tex = BasicTexture(atlas)
    /\ TexIdle /\ TileIdle
    /\ map = NoMap /\ bx = 0 /\ by = 0
    /\ cube_maker = CubeMaker_new
    /\ CountIdle
    /\ mesh = NoMesh /\ camera = NoCamera

Open ==
    /\ pc = "start"
    /\ map' = Map_open(md)
    /\ pc' = IF map'.status = "Ok" THEN "opened" ELSE "error"
    /\ UNCHANGED <<count_vars, tile_vars, tex_vars, md, bx, by, cube_maker, mesh, camera>>

\* Map::create_mesh up to the first pass of the loops of build_mesh.
CreateMesh ==
    /\ pc = "opened"
    /\ cube_maker' = CubeMaker_new
    /\ bx' = 0 /\ by' = 0
    /\ pc' = "build"
    /\ UNCHANGED <<count_vars, tile_vars, tex_vars, md, map, mesh, camera>>

CellPending == by < map.height /\ bx < map.width

BuildMeshCell ==
    /\ pc = "build" /\ CellPending
    /\ tile_in_bounds(map, bx, by)
    /\ cube_maker' = build_cell(cube_maker, map, tex, TILE_SIZE, bx, by)
    /\ IF bx + 1 < map.width
       THEN bx' = bx + 1 /\ by' = by
       ELSE bx' = 0 /\ by' = by + 1
    /\ UNCHANGED <<count_vars, pc, tile_vars, tex_vars, md, map, mesh, camera>>

\* The bounds check of the Vec index in get_tile fails: the thread panics.
BuildMeshPanic ==
    /\ pc = "build" /\ CellPending
    /\ ~tile_in_bounds(map, bx, by)
    /\ pc' = "panic"
    /\ UNCHANGED <<count_vars, tile_vars, tex_vars, md, map, bx, by, cube_maker, mesh, camera>>

\* MapMeshBuilder::finish once the loops of build_mesh are through.
Finish ==
    /\ pc = "build" /\ ~CellPending
    /\ mesh' = [ status |-> "Some",
                 vertices |-> CubeMaker_finish(cube_maker)[1],
                 indexes |-> CubeMaker_finish(cube_maker)[2] ]
    /\ pc' = "meshed"
    /\ UNCHANGED <<count_vars, tile_vars, tex_vars, md, map, bx, by, cube_maker, camera>>

GetCameraView ==
    /\ pc = "meshed"
    /\ camera' = get_camera_view(map)
    /\ pc' = "view"
    /\ UNCHANGED <<count_vars, tile_vars, tex_vars, md, map, bx, by, cube_maker, mesh>>

Next ==
    \/ Open
    \/ CreateMesh
    \/ BuildMeshCell
    \/ BuildMeshPanic
    \/ Finish
    \/ GetCameraView

Spec == Init /\ [][Next]_vars

-----------------------------------------------------------------------------
(* Tile classification on every u8                                         *)

InitTile ==
    /\ pc = "gid"
    /\ gid \in 0..255
    /\ tile = None /\ info = NoInfo
    /\ atlas = MainAtlas /\ tex = NoTex /\ TexIdle
    /\ MapIdle /\ cube_maker = CubeMaker_new
    /\ CountIdle

FromGid ==
    /\ pc = "gid"
    /\ tile' = from_gid(gid)
    /\ pc' = "tile"
    /\ UNCHANGED <<count_vars, gid, info, tex_vars, map_vars, cube_maker>>

Debug ==
    /\ pc = "tile" /\ tile # None
    /\ info' = debug(tile)
    /\ pc' = "info"
    /\ UNCHANGED <<count_vars, gid, tile, tex_vars, map_vars, cube_maker>>

NextTile == FromGid \/ Debug

SpecTile == InitTile /\ [][NextTile]_vars

-----------------------------------------------------------------------------
(* Texture slicing: a root texture, slices of it and slices of slices      *)

InitTexture ==
    /\ pc = "texture"
    /\ atlas \in AtlasInfos
    /\ tex = BasicTexture(atlas)
    /\ TexIdle /\ TileIdle /\ MapIdle /\ cube_maker = CubeMaker_new
    /\ CountIdle

\* A slice may be taken of the root and of a slice of the root.
CanSlice == pc = "texture" /\ (parent = NoTex \/ parent.kind = "BasicTexture")

Slice ==
    /\ CanSlice
    /\ \E x \in SliceOffsets, y \in SliceOffsets, wh \in SliceSizes :
         /\ req' = [kind |-> "slice", x |-> x, y |-> y,
                    width |-> wh[1], height |-> wh[2]]
         /\ tex' = slice(tex, x, y, wh[1], wh[2])
    /\ parent' = tex
    /\ tile' = None
    /\ meas' = NoMeas
    /\ UNCHANGED <<count_vars, pc, gid, info, atlas, map_vars, cube_maker>>

GetTextureSlice ==
    /\ CanSlice
    /\ \E t \in Tiles :
         /\ tile' = t
         /\ req' = [kind |-> "tile"] @@ tile_rect(t, tex)
         /\ tex' = get_texture_slice(t, tex)
    /\ parent' = tex
    /\ meas' = NoMeas
    /\ UNCHANGED <<count_vars, pc, gid, info, atlas, map_vars, cube_maker>>

GetMeasurements ==
    /\ pc = "texture" /\ meas = NoMeas
    /\ meas' = get_measurements(tex)
    /\ UNCHANGED <<count_vars, pc, tile_vars, atlas, tex, parent, req, map_vars, cube_maker>>

NextTexture == Slice \/ GetTextureSlice \/ GetMeasurements

SpecTexture == InitTexture /\ [][NextTexture]_vars

-----------------------------------------------------------------------------
(* A CubeMaker driven through its add_*_side methods in any order          *)

InitCube ==
    /\ pc = "cube"
    /\ atlas = MainAtlas
    /\ tex = BasicTexture(atlas)
    /\ TexIdle /\ TileIdle /\ MapIdle
    /\ cube_maker = CubeMaker_new
    /\ CountIdle

CanAdd == pc = "cube" /\ Len(cube_maker.indexes) < MaxCalls * Len(CUBE_INDEXES)

cube_rest == <<pc, tile_vars, tex_vars, map_vars, count_vars>>

AddNearSide ==
    /\ CanAdd
    /\ \E p \in CubePositions, t \in CubeTiles :
         cube_maker' = add_near_side(cube_maker, p, TILE_SIZE,
                                     get_texture_slice(t, tex))
    /\ UNCHANGED cube_rest

AddFarSide ==
    /\ CanAdd
    /\ \E p \in CubePositions, t \in CubeTiles :
         cube_maker' = add_far_side(cube_maker, p, TILE_SIZE,
                                    get_texture_slice(t, tex))
    /\ UNCHANGED cube_rest

AddLeftSide ==
    /\ CanAdd
    /\ \E p \in CubePositions, t \in CubeTiles :
         cube_maker' = add_left_side(cube_maker, p, TILE_SIZE,
                                     get_texture_slice(t, tex))
    /\ UNCHANGED cube_rest

AddRightSide ==
    /\ CanAdd
    /\ \E p \in CubePositions, t \in CubeTiles :
         cube_maker' = add_right_side(cube_maker, p, TILE_SIZE,
                                      get_texture_slice(t, tex))
    /\ UNCHANGED cube_rest

AddTopSide ==
    /\ CanAdd
    /\ \E p \in CubePositions, t \in CubeTiles :
         cube_maker' = add_top_side(cube_maker, p, TILE_SIZE,
                                    get_texture_slice(t, tex))
    /\ UNCHANGED cube_rest

AddBottomSide ==
    /\ CanAdd
    /\ \E p \in CubePositions, t \in CubeTiles :
         cube_maker' = add_bottom_side(cube_maker, p, TILE_SIZE,
                                       get_texture_slice(t, tex))
    /\ UNCHANGED cube_rest

CubeFinish ==
    /\ pc = "cube"
    /\ mesh' = [ status |-> "Some",
                 vertices |-> CubeMaker_finish(cube_maker)[1],
                 indexes |-> CubeMaker_finish(cube_maker)[2] ]
    /\ pc' = "finished"
    /\ UNCHANGED <<count_vars, tile_vars, tex_vars, md, map, bx, by, cube_maker, camera>>

NextCube ==
    \/ AddNearSide \/ AddFarSide \/ AddLeftSide
    \/ AddRightSide \/ AddTopSide \/ AddBottomSide
    \/ CubeFinish

SpecCube == InitCube /\ [][NextCube]_vars

-----------------------------------------------------------------------------
(* A long run of CubeMaker::add_side calls on one CubeMaker, as the mesh   *)
(* of a large map makes it.  The buffers are kept by their lengths, and of *)
(* the index buffer the entries of the last call.                          *)

InitCount ==
    /\ pc = "count"
    /\ atlas = MainAtlas
    /\ tex = BasicTexture(atlas)
    /\ TexIdle /\ TileIdle /\ MapIdle
    /\ cube_maker = CubeMaker_new
    /\ CountIdle

\* CubeMaker::add_side: each pass of its loop pushes `self.vertices.len()
\* as u16` to indexes and one vertex to vertices.
AddSideCounted ==
    /\ pc = "count"
    /\ index_count < MaxFaces * Len(CUBE_INDEXES)
    /\ last_indexes' = [ k \in 1..Len(CUBE_INDEXES) |->
                            pushed_index(vertex_count, k) ]
    /\ vertex_count' = vertex_count + Len(CUBE_INDEXES)
    /\ index_count' = index_count + Len(CUBE_INDEXES)
    /\ UNCHANGED <<pc, tile_vars, tex_vars, map_vars, cube_maker>>

NextCount == AddSideCounted

SpecCount == InitCount /\ [][NextCount]_vars


-----------------------------------------------------------------------------
(* Properties                                                              *)

\* C1 (as claimed): Map::open returns a Map exactly when the number of tiles
\* equals the product width x height of the integers, returns the
\* InvalidMap("Invalid dimensions") error otherwise, and so every Map it
\* returns has width x height tiles.
C1_OpenIffTilesEqualProduct ==
    map.status # "None" =>
        /\ (map.status = "Ok") <=> (Len(md.data) = md.width * md.height)
        /\ map.status # "Ok" =>
               map = [status |-> "Err", error |-> "InvalidMap(Invalid dimensions)"]
        /\ map.status = "Ok" => Len(map.tiles) = map.width * map.height

\* What one add_side call did to the buffers, from cm to cm2: it appended
\* nv vertices and the six indexes base + offsets[k], and kept the rest.
AppendedSide(cm, cm2, nv, offsets) ==
    LET base == Len(cm.vertices)
        ni == Len(cm.indexes)
    IN  /\ Len(cm2.vertices) = base + nv
        /\ Len(cm2.indexes) = ni + 6
        /\ SubSeq(cm2.vertices, 1, base) = cm.vertices
        /\ SubSeq(cm2.indexes, 1, ni) = cm.indexes
        /\ \A k \in 1..6 : cm2.indexes[ni + k] = U16(base + offsets[k])

\* C2 (as claimed): every add_*_side call appends exactly 4 vertices and the
\* 6 indexes base+0, base+1, base+2, base+0, base+2, base+3, and leaves what
\* the buffers held unchanged.
C2_FourVerticesFanIndexes ==
    [][ cube_maker' # cube_maker =>
          AppendedSide(cube_maker, cube_maker', 4, <<0, 1, 2, 0, 2, 3>>) ]_vars

\* The six vertices after the first base ones are a face's corners
\* 0, 1, 2, 0, 2, 3: the fourth repeats the first and the fifth the third.
SharedCornersTwice(vs, base) ==
    /\ vs[base + 4] = vs[base + 1]
    /\ vs[base + 5] = vs[base + 3]
    /\ \A j, k \in 1..6 : vs[base + j].normal = vs[base + k].normal

\* C2 (amended): every add_*_side call appends exactly 6 vertices, the
\* corners 0, 1, 2, 0, 2, 3 of one face, and the 6 indexes base+0 .. base+5
\* (as 16-bit values), and leaves what the buffers held unchanged.
C2_SixVerticesRunningIndexes ==
    [][ cube_maker' # cube_maker =>
          /\ AppendedSide(cube_maker, cube_maker', 6, <<0, 1, 2, 3, 4, 5>>)
          /\ SharedCornersTwice(cube_maker'.vertices, Len(cube_maker.vertices))
      ]_vars

\* C2 witness: two add_*_side calls were made on a CubeMaker.
C2_TwoSidesAdded ==
    /\ pc = "cube"
    /\ Len(cube_maker.vertices) = 12
    /\ Len(cube_maker.indexes) = 12

RECURSIVE GroundCount(_)
GroundCount(ts) ==
    IF ts = <<>> THEN 0
    ELSE (IF is_ground(Head(ts)) THEN 1 ELSE 0) + GroundCount(Tail(ts))

RECURSIVE ObstacleFaces(_)
ObstacleFaces(ts) ==
    IF ts = <<>> THEN 0
    ELSE (IF height(Head(ts)) > 0 THEN 4 * height(Head(ts)) + 1 ELSE 0)
         + ObstacleFaces(Tail(ts))

\* The F of C3: one face per ground tile, 4h + 1 per tile of height h > 0.
FaceCount(ts) == GroundCount(ts) + ObstacleFaces(ts)

\* The finished buffers hold vpf vertices and 6 indexes per face of the map,
\* and a map of nothing but Holes holds none.
MeshCounts(vpf) ==
    mesh.status = "Some" =>
        /\ Len(mesh.vertices) = vpf * FaceCount(map.tiles)
        /\ Len(mesh.indexes) = 6 * FaceCount(map.tiles)
        /\ (\A i \in DOMAIN map.tiles : map.tiles[i] = "Hole") =>
               mesh.vertices = <<>> /\ mesh.indexes = <<>>
        /\ (map.width = 1 /\ map.height = 1 /\ map.tiles = <<"Wall3">>) =>
               /\ Len(mesh.indexes) = 6 * 13
               /\ Len(mesh.vertices) = vpf * 13
        /\ (map.width = 1 /\ map.height = 1 /\ map.tiles = <<"Ground">>) =>
               /\ Len(mesh.indexes) = 6 * 1
               /\ Len(mesh.vertices) = vpf * 1

\* C3 (as claimed): the finished buffers hold 4 F vertices and 6 F indexes;
\* one Wall3 gives 13 faces, 52 vertices, 78 indexes; one Ground gives 1
\* face, 4 vertices, 6 indexes.
C3_FourVerticesPerFace == MeshCounts(4)

\* C3 (amended): the finished buffers hold 6 F vertices and 6 F indexes; one
\* Wall3 gives 13 faces, 78 vertices, 78 indexes; one Ground gives 1 face,
\* 6 vertices, 6 indexes.
C3_SixVerticesPerFace == MeshCounts(6)

\* C3 witness: the mesh of the 1x1 map of one Wall3 is finished.
C3_Wall3Meshed ==
    /\ mesh.status = "Some"
    /\ map.width = 1 /\ map.height = 1 /\ map.tiles = <<"Wall3">>
    /\ Len(mesh.vertices) = 78 /\ Len(mesh.indexes) = 78

\* The 26 constants of the enumeration.
EnumeratedGids ==
    { 1, 9, 17, 5, 6, 2, 10, 18, 26, 34, 3, 11, 19, 27, 35,
      13, 21, 29, 37, 8, 16, 24, 40, 32, 25, 4 }

\* C4: from_gid(g) is a tile exactly for the 26 enumerated constants, and then
\* get_gid gives g back; distinct variants have distinct gids.
C4_FromGidRoundTrip ==
    /\ pc \in {"tile", "info"} =>
        /\ (tile # None) <=> (gid \in EnumeratedGids)
        /\ tile # None => tile \in Tiles /\ get_gid(tile) = gid
    /\ pc = "info" => info.gid = gid
    /\ Cardinality(EnumeratedGids) = 26
    /\ Cardinality(Tiles) = 26
    /\ \A t1, t2 \in Tiles : t1 # t2 => get_gid(t1) # get_gid(t2)

\* C4 witness: the largest gid was looked up and came back from get_gid.
C4_Gid40Looked ==
    pc = "info" /\ gid = 40 /\ tile = "HeatSeekerEnemy" /\ info.gid = 40

PlayerSpawnTiles ==
    {"Player1Spawn", "Player2Spawn", "Player3Spawn", "Player4Spawn"}
EnemySpawnTiles ==
    {"StationaryEnemy", "BasicEnemy", "FastEnemy", "HeatSeekerEnemy",
     "RocketEnemy"}
ObjectSpawnTiles == {"Mine", "Crate"}
SpawnTiles == PlayerSpawnTiles \cup EnemySpawnTiles \cup ObjectSpawnTiles

\* C5: is_spawn agrees with get_spawn being some, and holds for exactly the
\* 4 + 5 + 2 spawn variants; every spawn is ground; is_ground holds for
\* exactly the spawns, Oob and Ground.
C5_SpawnAndGround ==
    /\ Cardinality(PlayerSpawnTiles) = 4
    /\ Cardinality(EnemySpawnTiles) = 5
    /\ Cardinality(ObjectSpawnTiles) = 2
    /\ Cardinality(SpawnTiles) = 11
    /\ pc = "info" =>
        /\ info.is_spawn <=> (info.spawn # None)
        /\ info.is_spawn <=> (tile \in SpawnTiles)
        /\ info.is_spawn => info.is_ground
        /\ info.is_ground <=> (tile \in SpawnTiles \cup {"Oob", "Ground"})

\* C5 witness: an object spawn was classified as spawn and ground.
C5_MineClassified ==
    pc = "info" /\ tile = "Mine" /\ info.is_spawn /\ info.is_ground

\* The level in the name of a Wall or Box variant, 0 for every other tile.
LevelInName(t) ==
    CASE t \in {"Wall1", "Box1"} -> 1
      [] t \in {"Wall2", "Box2"} -> 2
      [] t \in {"Wall3", "Box3"} -> 3
      [] t \in {"Wall4", "Box4"} -> 4
      [] t \in {"Wall5", "Box5"} -> 5
      [] OTHER -> 0

\* C6: blocks_bullet, is_obstacle and height > 0 agree; height is the level
\* in the name of the ten Wall and Box variants and 0 elsewhere; no tile is
\* both ground and obstacle.
C6_HeightAndObstacle ==
    pc = "info" =>
        /\ info.blocks_bullet <=> info.is_obstacle
        /\ info.is_obstacle <=> (info.height > 0)
        /\ info.height = LevelInName(tile)
        /\ info.height \in 0..5
        /\ ~(info.is_ground /\ info.is_obstacle)

\* C6 witness: a box of the highest level was classified.
C6_Box5Classified ==
    pc = "info" /\ tile = "Box5" /\ info.height = 5 /\ info.blocks_bullet


\* Whether the fraction q is the quotient n / d, for d > 0.
IsQuotient(q, n, d) == q[2] > 0 /\ q[1] * d = n * q[2]

\* C7: for a tile of gid g in 1..64 and a root atlas of W x H pixels,
\* get_texture_slice gives the slice at (((g-1) mod 8) (W div 8),
\* ((g-1) div 8) (H div 8)) of size (W div 8, H div 8), whose measurements
\* are (width/W, height/H, offsetX/W, offsetY/H); for 512 x 512 and gid 9:
\* offset (0, 64), size (64, 64), measurements (1/8, 1/8, 0, 1/8).
C7_AtlasCellOfTile ==
    (req.kind = "tile" /\ parent.kind = "BasicTexture") =>
        LET g == get_gid(tile)
            W == atlas.width
            H == atlas.height
        IN  /\ g \in 1..64
            /\ tex.offset_x = ((g - 1) % 8) * (W \div 8)
            /\ tex.offset_y = ((g - 1) \div 8) * (H \div 8)
            /\ tex.width = W \div 8
            /\ tex.height = H \div 8
            /\ meas # NoMeas =>
                /\ IsQuotient(meas[1], tex.width, W)
                /\ IsQuotient(meas[2], tex.height, H)
                /\ IsQuotient(meas[3], tex.offset_x, W)
                /\ IsQuotient(meas[4], tex.offset_y, H)
            /\ (W = 512 /\ H = 512 /\ g = 9) =>
                /\ tex.offset_x = 0 /\ tex.offset_y = 64
                /\ tex.width = 64 /\ tex.height = 64
                /\ meas # NoMeas =>
                       meas = << <<1, 8>>, <<1, 8>>, <<0, 1>>, <<1, 8>> >>

\* C7 witness: the Ground cell of the 512 x 512 atlas was sliced and measured.
C7_GroundCellMeasured ==
    /\ req.kind = "tile" /\ parent.kind = "BasicTexture"
    /\ atlas = MainAtlas /\ tile = "Ground"
    /\ tex.offset_x = 0 /\ tex.offset_y = 64
    /\ meas = << <<1, 8>>, <<1, 8>>, <<0, 1>>, <<1, 8>> >>

\* C8 (as claimed): p.slice(x, y, w, h) has the absolute offset
\* (p.offsetX + x, p.offsetY + y) and the size (w, h), and is measured
\* against the root texture's pixel size.
C8_SliceOffsetIsSum ==
    req.kind = "slice" =>
        /\ tex.offset_x = parent.offset_x + req.x
        /\ tex.offset_y = parent.offset_y + req.y
        /\ tex.width = req.width
        /\ tex.height = req.height
        /\ tex.info = atlas

\* The world's vertical axis: the direction in which get_pos moves a cell
\* when its stack level z grows by one.
VerticalAxis(m) ==
    LET a == get_pos(m, TILE_SIZE, 0, 0, 0)
        b == get_pos(m, TILE_SIZE, 0, 0, 1)
    IN  << (b[1] - a[1]) \div TILE_SIZE,
           (b[2] - a[2]) \div TILE_SIZE,
           (b[3] - a[3]) \div TILE_SIZE >>

\* The centre of the positions get_pos gives the cells of the grid at level 0.
GridCentre(m) ==
    LET a == get_pos(m, TILE_SIZE, 0, 0, 0)
        b == get_pos(m, TILE_SIZE, m.width - 1, m.height - 1, 0)
    IN  << (a[1] + b[1]) \div 2, 0, (a[3] + b[3]) \div 2 >>

\* C9 (as claimed): for width, height >= 1 the camera's target is the centre
\* of the grid, its eye is strictly above the target on the vertical axis
\* and behind it, and its up vector is the vertical axis.
C9_CameraAboveBehindUpVertical ==
    (camera.status = "Some" /\ map.width >= 1 /\ map.height >= 1) =>
        /\ camera.target = GridCentre(map)
        /\ camera.target = << ((map.width - 1) * TILE_SIZE) \div 2, 0,
                              ((map.height - 1) * TILE_SIZE) \div 2 >>
        /\ camera.eye[2] > camera.target[2]
        /\ camera.eye[3] < camera.target[3]
        /\ camera.up = VerticalAxis(map)

\* C10 (as claimed): every get_tile(x, y) of build_mesh on a Map that
\* Map::open returned has x < width and y < height, and reads the position
\* y * width + x, which lies in the tile grid.
C10_GetTileInRange ==
    (pc = "build" /\ CellPending) =>
        /\ bx \in 0..(map.width - 1)
        /\ by \in 0..(map.height - 1)
        /\ tile_index(map, bx, by) = by * map.width + bx
        /\ tile_index(map, bx, by) < Len(map.tiles)

\* build_mesh has just gone through the cell (bx, by).
CellVisited == pc = "build" /\ pc' = "build" /\ <<bx', by'>> # <<bx, by>>

\* The faces the buffers of a CubeMaker hold: six indexes to the face.
Faces(cm) == Len(cm.indexes) \div Len(CUBE_INDEXES)

\* The tiles that are neither ground nor obstacle.
FlatNonGroundTiles == {"Hole", "Water", "Swamp"}

\* C11 (as claimed): the tile of every cell build_mesh goes through is
\* ground or has a height above 0, and the cell adds at least one face.
C11_EveryCellAddsAFace ==
    [][CellVisited =>
          /\ is_ground(get_tile(map, bx, by)) \/ height(get_tile(map, bx, by)) > 0
          /\ Faces(cube_maker') > Faces(cube_maker)]_vars

\* C11 (amended): the variants that are neither ground nor obstacle are
\* exactly Hole, Water and Swamp, and a cell build_mesh goes through adds at
\* least one face exactly when its tile is none of these three; otherwise
\* it leaves the buffers as they were.
C11_FlatNonGroundAddNothing ==
    [][CellVisited =>
          /\ \A t \in Tiles :
                 (is_ground(t) \/ height(t) > 0) <=> t \notin FlatNonGroundTiles
          /\ Faces(cube_maker') > Faces(cube_maker)
                 <=> get_tile(map, bx, by) \notin FlatNonGroundTiles
          /\ get_tile(map, bx, by) \in FlatNonGroundTiles
                 => cube_maker' = cube_maker]_vars

\* C11 witness: build_mesh is through both cells of the map Ground, Hole
\* and holds the one face of the Ground.
C11_HoleCellVisited ==
    /\ pc = "build" /\ ~CellPending
    /\ map.tiles = <<"Ground", "Hole">>
    /\ Faces(cube_maker) = 1

\* The vertices a step appended to the buffers.
NewVertices ==
    SubSeq(cube_maker'.vertices, Len(cube_maker.vertices) + 1,
           Len(cube_maker'.vertices))

\* The corners, in pixels, of the cell of gid g in the 8 x 8 grid of the
\* atlas.
CellCorners(g) ==
    LET w == atlas.width \div 8
        h == atlas.height \div 8
        col == (g - 1) % 8
        row == (g - 1) \div 8
    IN  { col * w, (col + 1) * w } \X { row * h, (row + 1) * h }

\* The texture coordinate of vertex v is the corner c of the atlas.
AtCorner(v, c) ==
    /\ IsQuotient(v.tex_coord[1], c[1], atlas.width)
    /\ IsQuotient(v.tex_coord[2], c[2], atlas.height)

\* The texture coordinates of the vertices vs are the corners of the cell
\* of gid g: each vertex at one of them, each of them taken.
TexturedByCell(vs, g) ==
    /\ \A i \in DOMAIN vs : \E c \in CellCorners(g) : AtCorner(vs[i], c)
    /\ \A c \in CellCorners(g) : \E i \in DOMAIN vs : AtCorner(vs[i], c)

GroundClassified == {"Ground", "Oob"} \cup SpawnTiles

\* C12: what build_mesh emits for a ground-classified tile is one top face
\* at level 0 textured by the atlas cell of gid 9, and not by the tile's own
\* cell unless the tile is Ground; what it emits for an obstacle is textured
\* by the cell of the obstacle's own gid.
C12_GroundCellForGroundTiles ==
    [][CellVisited =>
          LET t == get_tile(map, bx, by)
              new == NewVertices
          IN  /\ t \in GroundClassified =>
                  /\ Len(new) = 6
                  /\ \A i \in DOMAIN new :
                         /\ new[i].normal = <<0, 1, 0>>
                         /\ new[i].pos[2] = 0 * TILE_SIZE + TILE_SIZE \div 2
                  /\ TexturedByCell(new, 9)
                  /\ t # "Ground" => ~TexturedByCell(new, get_gid(t))
              /\ height(t) > 0 =>
                  /\ Len(new) > 0
                  /\ TexturedByCell(new, get_gid(t))
              /\ t = "Wall3" => TexturedByCell(new, 18)]_vars

\* C12 witness: the one cell of the map of a Player1Spawn (gid 13) is meshed
\* as one face textured by the cell of gid 9.
C12_SpawnTexturedAsGround ==
    /\ pc = "build" /\ ~CellPending
    /\ map.tiles = <<"Player1Spawn">>
    /\ Len(cube_maker.vertices) = 6
    /\ TexturedByCell(cube_maker.vertices, 9)
    /\ ~TexturedByCell(cube_maker.vertices, 13)

\* The side whose faces carry the normal n.
SideOfNormal(n) ==
    CASE n = <<-1, 0, 0>> -> "left"
      [] n = <<1, 0, 0>> -> "right"
      [] n = <<0, 0, -1>> -> "far"
      [] n = <<0, 0, 1>> -> "near"
      [] n = <<0, 1, 0>> -> "top"
      [] n = <<0, -1, 0>> -> "bottom"
      [] OTHER -> "none"

\* The centre of the cube that the face of vertices vs[b + 1 .. b + 6] is a
\* side of: the middle of the face's diagonal, moved half a tile against
\* the normal.
CubeCentre(vs, b) ==
    LET p == vs[b + 1].pos
        q == vs[b + 3].pos
        n == vs[b + 1].normal
    IN  << (p[1] + q[1]) \div 2 - n[1] * (TILE_SIZE \div 2),
           (p[2] + q[2]) \div 2 - n[2] * (TILE_SIZE \div 2),
           (p[3] + q[3]) \div 2 - n[3] * (TILE_SIZE \div 2) >>

\* Face k of the buffers read back as <<side, x, y, z>>: its side, the grid
\* cell and the stack level of its cube.
ReadFace(vs, k, m) ==
    LET b == 6 * (k - 1)
        c == CubeCentre(vs, b)
    IN  << SideOfNormal(vs[b + 1].normal),
           c[1] \div TILE_SIZE,
           m.height - 1 - c[3] \div TILE_SIZE,
           c[2] \div TILE_SIZE >>

ReadFaces(vs, m) == [ k \in 1..(Len(vs) \div 6) |-> ReadFace(vs, k, m) ]

\* The faces of levels z..h of an obstacle of height h at cell (x, y):
\* each level as left, right, far, near, and the top after the sides of
\* level h.
RECURSIVE LevelFaces(_, _, _, _)
LevelFaces(x, y, z, h) ==
    IF z > h THEN <<>>
    ELSE << <<"left", x, y, z>>, <<"right", x, y, z>>,
            <<"far", x, y, z>>, <<"near", x, y, z>> >>
         \o (IF z = h THEN << <<"top", x, y, z>> >> ELSE <<>>)
         \o LevelFaces(x, y, z + 1, h)

\* The faces of the cell (x, y) of tile t.
TileFaces(t, x, y) ==
    IF t \in GroundClassified THEN << <<"top", x, y, 0>> >>
    ELSE IF LevelInName(t) > 0 THEN LevelFaces(x, y, 1, LevelInName(t))
    ELSE <<>>

\* The faces of the cells i, i + 1, ... of the grid of m in row-major
\* order: cell i is column i mod width of row i div width.
RECURSIVE FacesFrom(_, _)
FacesFrom(m, i) ==
    IF i >= m.width * m.height THEN <<>>
    ELSE TileFaces(m.tiles[i + 1], i % m.width, i \div m.width)
         \o FacesFrom(m, i + 1)

\* The buffers of a second build of the mesh of m with the same atlas and
\* tile size, from cell i on in row-major order.
RECURSIVE BuiltAgain(_, _, _)
BuiltAgain(cm, m, i) ==
    IF i >= m.width * m.height THEN cm
    ELSE BuiltAgain(build_cell(cm, m, tex, TILE_SIZE, i % m.width, i \div m.width),
                    m, i + 1)

\* C13: the finished mesh holds its faces in the order of the rows of the
\* grid from 0 up, within a row the columns from 0 up, within an obstacle
\* the levels from 1 up, within a level left, right, far, near, and the top
\* last on the highest level; a second build from the same map and atlas
\* gives the same vertices and indexes.
C13_FacesInFixedOrder ==
    mesh.status = "Some" =>
        /\ Len(mesh.vertices) % 6 = 0
        /\ ReadFaces(mesh.vertices, map) = FacesFrom(map, 0)
        /\ mesh.vertices = BuiltAgain(CubeMaker_new, map, 0).vertices
        /\ mesh.indexes = BuiltAgain(CubeMaker_new, map, 0).indexes

\* C13 witness: the 2 x 2 map of a Wall3 at (1, 0) and a Ground at (0, 1)
\* is meshed: 13 faces of the wall, then the face of the ground.
C13_WallThenGroundMeshed ==
    /\ mesh.status = "Some"
    /\ map.width = 2 /\ map.height = 2
    /\ map.tiles = <<"Hole", "Wall3", "Ground", "Hole">>
    /\ Len(mesh.vertices) = 6 * 14
    /\ ReadFace(mesh.vertices, 1, map) = <<"left", 1, 0, 1>>
    /\ ReadFace(mesh.vertices, 13, map) = <<"top", 1, 0, 3>>
    /\ ReadFace(mesh.vertices, 14, map) = <<"top", 0, 1, 0>>

Abs(n) == IF n < 0 THEN -n ELSE n

\* How far the point p lies from the eye of camera c along the direction
\* from the eye to the target (times the length of that direction).
AlongView(c, p) ==
    (p[1] - c.eye[1]) * (c.target[1] - c.eye[1])
    + (p[2] - c.eye[2]) * (c.target[2] - c.eye[2])
    + (p[3] - c.eye[3]) * (c.target[3] - c.eye[3])

\* C14: once the mesh and the camera are there, the cube of every face of
\* cell (x, y) at level z is centred at (x, z, height - y - 1) tile sizes,
\* where height - y - 1 does not leave 0..65535, every vertex of the face is
\* within half a tile size of that centre on each axis, and row 0 of the
\* grid has the largest world z and is the row farthest from the eye along
\* the camera's view.
C14_CellsCentredRowsFlipped ==
    (mesh.status = "Some" /\ camera.status = "Some") =>
        LET fs == FacesFrom(map, 0)
            vs == mesh.vertices
        IN  /\ Len(vs) = 6 * Len(fs)
            /\ \A k \in DOMAIN fs :
                   LET x == fs[k][2]
                       y == fs[k][3]
                       z == fs[k][4]
                       c == << x * TILE_SIZE, z * TILE_SIZE,
                               (map.height - y - 1) * TILE_SIZE >>
                   IN  /\ x \in 0..(map.width - 1)
                       /\ y \in 0..(map.height - 1)
                       /\ map.height - y - 1 \in 0..65535
                       /\ get_pos(map, TILE_SIZE, x, y, z) = c
                       /\ CubeCentre(vs, 6 * (k - 1)) = c
                       /\ \A j \in 1..6 : \A a \in 1..3 :
                              Abs(vs[6 * (k - 1) + j].pos[a] - c[a])
                                  <= TILE_SIZE \div 2
            /\ \A x \in 0..(map.width - 1) : \A y \in 0..(map.height - 1) :
                   /\ get_pos(map, TILE_SIZE, x, 0, 0)[3]
                          = (map.height - 1) * TILE_SIZE
                   /\ get_pos(map, TILE_SIZE, x, y, 0)[3]
                          <= get_pos(map, TILE_SIZE, x, 0, 0)[3]
                   /\ AlongView(camera, get_pos(map, TILE_SIZE, x, y, 0))
                          <= AlongView(camera, get_pos(map, TILE_SIZE, x, 0, 0))
                   /\ y > 0 =>
                          AlongView(camera, get_pos(map, TILE_SIZE, x, y, 0))
                              < AlongView(camera, get_pos(map, TILE_SIZE, x, 0, 0))

\* C14 witness: the map of one column, a Ground in row 0 and a Wall3 in
\* row 1, is meshed and viewed; the face of row 0 has its cube one tile
\* size up the world's z, the wall's first face has its cube at z 0.
C14_TwoRowsViewed ==
    /\ mesh.status = "Some" /\ camera.status = "Some"
    /\ map.width = 1 /\ map.height = 2
    /\ map.tiles = <<"Ground", "Wall3">>
    /\ CubeCentre(mesh.vertices, 0) = <<0, 0, TILE_SIZE>>
    /\ CubeCentre(mesh.vertices, 6) = <<0, TILE_SIZE, 0>>

Minus(p, q) == << p[1] - q[1], p[2] - q[2], p[3] - q[3] >>

Dot(p, q) == p[1] * q[1] + p[2] * q[2] + p[3] * q[3]

Cross(p, q) ==
    << p[2] * q[3] - p[3] * q[2],
       p[3] * q[1] - p[1] * q[3],
       p[1] * q[2] - p[2] * q[1] >>

\* v is s * n for some s > 0.
PositiveMultiple(v, n) == Dot(v, n) > 0 /\ Cross(v, n) = <<0, 0, 0>>

\* The normal of the triangle (a, b, c) by the right-hand rule.
TriangleNormal(a, b, c) == Cross(Minus(b, a), Minus(c, a))

SideTemplates ==
    { CUBE_SIDE_NEAR, CUBE_SIDE_FAR, CUBE_SIDE_LEFT,
      CUBE_SIDE_RIGHT, CUBE_SIDE_TOP, CUBE_SIDE_BOTTOM }

\* The template cs lies on the side of the unit cube that faces its normal,
\* and its two triangles turn the way of its normal.
TemplateFacesOutward(cs) ==
    /\ Len(cs.pos) = 4
    /\ Dot(cs.normal, cs.normal) = 1
    /\ \A i \in 1..4 :
           /\ \A a \in 1..3 : cs.pos[i][a] \in {-1, 1}
           /\ Dot(cs.pos[i], cs.normal) = 1
    /\ PositiveMultiple(TriangleNormal(cs.pos[1], cs.pos[2], cs.pos[3]), cs.normal)
    /\ PositiveMultiple(TriangleNormal(cs.pos[1], cs.pos[3], cs.pos[4]), cs.normal)

\* Corner i of template cs on the cube of half size hs centred at p.
PlacedCorner(cs, i, p, hs) ==
    << p[1] + hs * cs.pos[i][1], p[2] + hs * cs.pos[i][2],
       p[3] + hs * cs.pos[i][3] >>

\* The position the index buffer of cm gives its entry e.
Drawn(cm, e) == cm.vertices[cm.indexes[e] + 1].pos

C16_IndexesStayInTheirFace ==
    (pc = "count" /\ vertex_count > 0) =>
        \A k \in DOMAIN last_indexes :
            /\ last_indexes[k] >= vertex_count - Len(CUBE_INDEXES)
            /\ last_indexes[k] < vertex_count

=============================================================================
